---------------------------- MODULE Spec2Model ----------------------------
(***************************************************************************)
(* Model of the kvs storage engine (src/src/kv.rs): an append-only log of  *)
(* JSON-encoded commands (log.txt), an in-memory index from key to the     *)
(* byte range of a record, a write cursor (final_offset) and a record      *)
(* counter (WAL.size) compared against a threshold to trigger compaction.  *)
(*                                                                         *)
(* The log is modelled at byte level: a sequence of one-character strings. *)
(* Offsets are 0-based as in the code; bytes [s, e) of the file are        *)
(* SubSeq(disk, s + 1, e).                                                 *)
(***************************************************************************)
EXTENDS Integers, Sequences, FiniteSets, TLC

VARIABLES
    disk,          \* contents of <dir>/log.txt, a sequence of bytes
    st,            \* "closed": no live KvStore; "ready": a KvStore is open
    map,           \* KvStore.map : key -> <<start, end>>
    final_offset,  \* KvStore.final_offset
    size,          \* KvStore.wal.size
    kv,            \* reference key -> value map driven by the same calls
    last,          \* the last call made and what it returned
    nops,          \* number of calls made so far
    ncompact       \* number of compactions run so far

vars == <<disk, st, map, final_offset, size, kv, last, nops, ncompact>>

-----------------------------------------------------------------------------
(* Bounds of the exploration *)

MaxOps == 4

Keys == {<<"a">>, <<"b">>}
Vals == {<<"1">>, <<"2">>}

(* WAL::new: threshold: 100 *)
Threshold == 100

(* Lengths (in records) of the logs an Engine may be opened on *)
Prefills == {0, Threshold - 1}

-----------------------------------------------------------------------------
(* Commands and their serde_json encoding (externally tagged enum) *)

SetCmd(k, v) == [type |-> "Set", key |-> k, val |-> v]
RmCmd(k)     == [type |-> "Rm",  key |-> k, val |-> <<>>]
GetCmd(k)    == [type |-> "Get", key |-> k, val |-> <<>>]

DQ == "\""

(* A JSON string literal. The alphabet of Keys and Vals holds no character *)
(* that serde_json escapes.                                                *)
Quote(s) == <<DQ>> \o s \o <<DQ>>

TagSet == <<"S", "e", "t">>
TagRm  == <<"R", "m">>
TagGet == <<"G", "e", "t">>

(* serde_json::to_string(&Commands::...) *)
to_string(c) ==
    CASE c.type = "Set" ->
           <<"{">> \o Quote(TagSet) \o <<":", "[">> \o Quote(c.key)
                   \o <<",">> \o Quote(c.val) \o <<"]", "}">>
      [] c.type = "Rm" ->
           <<"{">> \o Quote(TagRm) \o <<":">> \o Quote(c.key) \o <<"}">>
      [] OTHER ->
           <<"{">> \o Quote(TagGet) \o <<":">> \o Quote(c.key) \o <<"}">>

-----------------------------------------------------------------------------
(* serde_json decoding of one Commands value starting at position p (1-based) *)

Expect(b, p, c) == p >= 1 /\ p <= Len(b) /\ b[p] = c

RECURSIVE ScanQuote(_, _)
ScanQuote(b, p) ==
    IF p > Len(b) THEN 0
    ELSE IF b[p] = DQ THEN p
    ELSE ScanQuote(b, p + 1)

StrFail == [ok |-> FALSE, val |-> <<>>, next |-> 0]

ParseStr(b, p) ==
    IF ~Expect(b, p, DQ) THEN StrFail
    ELSE LET q == ScanQuote(b, p + 1)
         IN  IF q = 0 THEN StrFail
             ELSE [ok |-> TRUE, val |-> SubSeq(b, p + 1, q - 1), next |-> q + 1]

CmdFail == [ok |-> FALSE, cmd |-> GetCmd(<<>>), next |-> 0]

(* the payload of a newtype variant: one string, then the closing brace *)
ParseOneArg(b, p, type) ==
    LET k == ParseStr(b, p)
    IN  IF k.ok /\ Expect(b, k.next, "}")
        THEN [ok |-> TRUE,
              cmd |-> [type |-> type, key |-> k.val, val |-> <<>>],
              next |-> k.next + 1]
        ELSE CmdFail

(* the payload of the tuple variant Set: [ string , string ] and the brace *)
ParseTwoArgs(b, p) ==
    IF ~Expect(b, p, "[") THEN CmdFail
    ELSE LET k == ParseStr(b, p + 1)
         IN  IF ~(k.ok /\ Expect(b, k.next, ",")) THEN CmdFail
             ELSE LET v == ParseStr(b, k.next + 1)
                  IN  IF v.ok /\ Expect(b, v.next, "]")
                              /\ Expect(b, v.next + 1, "}")
                      THEN [ok |-> TRUE, cmd |-> SetCmd(k.val, v.val),
                            next |-> v.next + 2]
                      ELSE CmdFail

ParseCommand(b, p) ==
    IF ~Expect(b, p, "{") THEN CmdFail
    ELSE LET t == ParseStr(b, p + 1)
         IN  IF ~(t.ok /\ Expect(b, t.next, ":")) THEN CmdFail
             ELSE IF t.val = TagSet THEN ParseTwoArgs(b, t.next + 1)
             ELSE IF t.val = TagRm  THEN ParseOneArg(b, t.next + 1, "Rm")
             ELSE IF t.val = TagGet THEN ParseOneArg(b, t.next + 1, "Get")
             ELSE CmdFail

(* serde_json::from_slice: one value, then nothing but the end of input *)
from_slice(buf) ==
    LET r == ParseCommand(buf, 1)
    IN  IF r.ok /\ r.next = Len(buf) + 1
        THEN [ok |-> TRUE, cmd |-> r.cmd]
        ELSE [ok |-> FALSE, cmd |-> r.cmd]

-----------------------------------------------------------------------------
(* Maps (HashMap) as functions *)

EmptyMap == <<>>

(* a bug the map could have: an existing entry is kept, as with           *)
(* entry(k).or_insert(x)                                                   *)
InsertIfAbsent(m, k, x) == IF k \in DOMAIN m THEN m ELSE (k :> x) @@ m

(* HashMap::insert; f @@ g is the function on both domains that takes f   *)
(* where they meet, computed at once, entry by entry                       *)
Insert(m, k, x) == (k :> x) @@ m

Delete(m, k) == [y \in (DOMAIN m) \ {k} |-> m[y]] @@ EmptyMap

-----------------------------------------------------------------------------
(* WAL *)

(* No encoded command is shorter than {"Rm":""}, so a file of Len(b)      *)
(* bytes holds at most this many records; one more iteration meets the    *)
(* end of the file.                                                       *)
MaxRecords(b) == (Len(b) \div Len(to_string(RmCmd(<<>>)))) + 1

(* a bug WAL::exceeds could have: compaction already at the threshold *)
ExceedsAtThreshold(sz) == sz >= Threshold

(* WAL::exceeds *)
Exceeds(sz) == sz > Threshold

(* a bug WAL::append could have: the file opened without append(true), so *)
(* the write lands at offset 0                                            *)
append_at_start(b, data) ==
    data \o SubSeq(b, Len(data) + 1, Len(b))

(* WAL::append: the file after handle.write(data.as_bytes()) *)
append(b, data) == b \o data

(* WAL::stream: decode records back to back until the end of the file;    *)
(* ok = FALSE when a record fails to decode (the unwrap panics)           *)
StreamStep(b, s) ==
    IF ~s.ok \/ s.p > Len(b) THEN s
    ELSE LET r == ParseCommand(b, s.p)
         IN  IF ~r.ok THEN [ok |-> FALSE, p |-> s.p, cmds |-> s.cmds]
             ELSE [ok |-> TRUE, p |-> r.next, cmds |-> Append(s.cmds, r.cmd)]

(* n iterations of the stream, split in halves *)
RECURSIVE StreamIter(_, _, _)
StreamIter(b, s, n) ==
    IF n = 0 THEN s
    ELSE IF n = 1 THEN StreamStep(b, s)
    ELSE LET half == StreamIter(b, s, n \div 2)
         IN  IF ~half.ok THEN half
             ELSE StreamIter(b, half, n - (n \div 2))

stream(b) ==
    StreamIter(b, [ok |-> TRUE, p |-> 1, cmds |-> <<>>], MaxRecords(b))

(* WAL::read_one: "eof" when read_exact cannot fill the buffer, "panic"   *)
(* when the buffer does not decode (unwrap), else the decoded command     *)
read_one(b, offsets) ==
    IF offsets[2] > Len(b)
    THEN [tag |-> "eof", cmd |-> GetCmd(<<>>)]
    ELSE LET r == from_slice(SubSeq(b, offsets[1] + 1, offsets[2]))
         IN  IF r.ok THEN [tag |-> "ok", cmd |-> r.cmd]
             ELSE [tag |-> "panic", cmd |-> r.cmd]

-----------------------------------------------------------------------------
(* KvStore *)

Res(tag, v) == [tag |-> tag, v |-> v]

(* KvStore::get, as a function of the engine state *)
GetOf(b, m, k) ==
    IF k \in DOMAIN m
    THEN LET r == read_one(b, m[k])
         IN  CASE r.tag = "eof"   -> Res("FileReadError", <<>>)
               [] r.tag = "panic" -> Res("Panic", <<>>)
               [] OTHER -> IF r.cmd.type = "Set" THEN Res("Some", r.cmd.val)
                           ELSE Res("None", <<>>)
    ELSE Res("None", <<>>)

(* KvStore::set: the index entry recorded for the appended record *)
SetEntry(fo, num_bytes) == <<fo, fo + num_bytes>>

(* KvStore::set: self.final_offset += num_bytes *)
CursorAfterSet(fo, num_bytes) == fo + num_bytes

(* a bug remove could have: no check of the index before the append *)
RemoveNeverFails(m, k) == FALSE

(* KvStore::remove: the early return on an absent key *)
RemoveFails(m, k) == k \notin DOMAIN m

(* a bug remove could have: the index entry is kept *)
IndexAfterRemoveKept(m, k) == m

(* KvStore::remove: self.map.remove(&key) *)
IndexAfterRemove(m, k) == Delete(m, k)

(* KvStore::remove: the byte count of the append is discarded and         *)
(* final_offset is not assigned                                           *)
CursorAfterRemove(fo, num_bytes) == fo

(* a bug compact could have: Rm records are ignored, so removed keys come *)
(* back with the rewrite                                                  *)
MappingStepSkipsRm(mp, c) ==
    IF c.type = "Set" THEN Insert(mp, c.key, c.val) ELSE mp

(* KvStore::compact: the loop over the streamed commands *)
MappingStep(mp, c) ==
    CASE c.type = "Set" -> Insert(mp, c.key, c.val)
      [] c.type = "Rm"  -> Delete(mp, c.key)
      [] OTHER          -> mp

(* the loop over cmds[lo..hi], split in halves *)
RECURSIVE CollapseRange(_, _, _, _)
CollapseRange(cmds, lo, hi, mp) ==
    IF lo > hi THEN mp
    ELSE IF lo = hi THEN MappingStep(mp, cmds[lo])
    ELSE LET mid == (lo + hi) \div 2
             half == CollapseRange(cmds, lo, mid, mp)
         IN  IF DOMAIN half = {}
             THEN CollapseRange(cmds, mid + 1, hi, EmptyMap)
             ELSE CollapseRange(cmds, mid + 1, hi, half)

Collapse(cmds) == CollapseRange(cmds, 1, Len(cmds), EmptyMap)

(* the orders in which mapping.iter() may yield the keys of a HashMap *)
Orders(S) ==
    {f \in [1..Cardinality(S) -> S] : \A i, j \in DOMAIN f : f[i] = f[j] => i = j}

(* KvStore::compact: the file after clear() and one append per entry *)
RECURSIVE Rewrite(_, _, _)
Rewrite(mp, ord, i) ==
    IF i > Len(ord) THEN <<>>
    ELSE to_string(SetCmd(ord[i], mp[ord[i]])) \o Rewrite(mp, ord, i + 1)

(* KvStore::compact: wal.size after the rewrite; clear() leaves it alone  *)
(* and every append adds one                                              *)
SizeAfterCompact(sz, written) == sz + written

(* KvStore::compact assigns neither self.map nor self.final_offset *)
IndexAfterCompact(m, newdisk) == m

CursorAfterCompact(fo, newdisk) == fo

(* a bug the replay could have: Rm records are skipped *)
IndexStepSkipsRm(m, c, s, e) ==
    IF c.type = "Set" THEN Insert(m, c.key, <<s, e>>) ELSE m

(* KvStore::intialize_index: the match on one decoded command, at bytes   *)
(* [s, e)                                                                  *)
IndexStep(m, c, s, e) ==
    CASE c.type = "Set" -> Insert(m, c.key, <<s, e>>)
      [] c.type = "Rm"  -> Delete(m, c.key)
      [] OTHER          -> m

(* a bug the replay could have: current_offset is moved to the record's   *)
(* end before the match, so an entry starts where its record ends         *)
InitIndexStepLateStart(b, s) ==
    IF ~s.ok \/ s.final_offset >= Len(b) THEN s
    ELSE LET r == ParseCommand(b, s.final_offset + 1)
         IN  IF ~r.ok
             THEN [s EXCEPT !.ok = FALSE]
             ELSE [ok |-> TRUE,
                   map |-> IndexStep(s.map, r.cmd, r.next - 1, r.next - 1),
                   final_offset |-> r.next - 1,
                   size |-> s.size + 1]

(* KvStore::intialize_index: one turn of the while loop *)
InitIndexStep(b, s) ==
    IF ~s.ok \/ s.final_offset >= Len(b) THEN s
    ELSE LET r == ParseCommand(b, s.final_offset + 1)
         IN  IF ~r.ok
             THEN [s EXCEPT !.ok = FALSE]
             ELSE [ok |-> TRUE,
                   map |-> IndexStep(s.map, r.cmd, s.final_offset, r.next - 1),
                   final_offset |-> r.next - 1,
                   size |-> s.size + 1]

(* n turns of the loop, split in halves *)
RECURSIVE InitIndexIter(_, _, _)
InitIndexIter(b, s, n) ==
    IF n = 0 THEN s
    ELSE IF n = 1 THEN InitIndexStep(b, s)
    ELSE LET half == InitIndexIter(b, s, n \div 2)
         IN  IF ~half.ok THEN half
             ELSE InitIndexIter(b, half, n - (n \div 2))

intialize_index(b) ==
    InitIndexIter(b, [ok |-> TRUE, map |-> EmptyMap, final_offset |-> 0,
                      size |-> 0], MaxRecords(b))

-----------------------------------------------------------------------------
(* Reference semantics: a plain key -> value map *)

RefSet(m, k, v) == Insert(m, k, v)
RefRemove(m, k) == Delete(m, k)

Lookup(m, k) == IF k \in DOMAIN m THEN Res("Some", m[k]) ELSE Res("None", <<>>)

(* An existing log of n records, written by earlier runs of the program:  *)
(* set a 1; set b 1; set a 2; rm b; repeated                              *)
PreOp(i) ==
    CASE i % 4 = 1 -> SetCmd(<<"a">>, <<"1">>)
      [] i % 4 = 2 -> SetCmd(<<"b">>, <<"1">>)
      [] i % 4 = 3 -> SetCmd(<<"a">>, <<"2">>)
      [] OTHER     -> RmCmd(<<"b">>)

RECURSIVE PreLogRange(_, _)
PreLogRange(lo, hi) ==
    IF lo > hi THEN <<>>
    ELSE IF lo = hi THEN to_string(PreOp(lo))
    ELSE LET mid == (lo + hi) \div 2
         IN  PreLogRange(lo, mid) \o PreLogRange(mid + 1, hi)

PreLog(n) == PreLogRange(1, n)

RefStep(m, c) ==
    IF c.type = "Set" THEN RefSet(m, c.key, c.val) ELSE RefRemove(m, c.key)

RECURSIVE PreKvRange(_, _, _)
PreKvRange(lo, hi, m) ==
    IF lo > hi THEN m
    ELSE IF lo = hi THEN RefStep(m, PreOp(lo))
    ELSE LET mid == (lo + hi) \div 2
             half == PreKvRange(lo, mid, m)
         IN  IF DOMAIN half = {}
             THEN PreKvRange(mid + 1, hi, EmptyMap)
             ELSE PreKvRange(mid + 1, hi, half)

PreKv(n) == PreKvRange(1, n, EmptyMap)

-----------------------------------------------------------------------------
(* The state machine: Closed --open--> Ready --set/get/remove--> Ready *)

Call(op, k, v, res, compacted, mapping) ==
    [op |-> op, key |-> k, val |-> v, res |-> res,
     compacted |-> compacted, mapping |-> mapping]

Ok == Res("Ok", <<>>)

Init ==
    /\ \E n \in Prefills : disk = PreLog(n) /\ kv = PreKv(n)
    /\ st = "closed"
    /\ map = EmptyMap
    /\ final_offset = 0
    /\ size = 0
    /\ last = Call("none", <<>>, <<>>, Ok, FALSE, EmptyMap)
    /\ nops = 0
    /\ ncompact = 0

(* the process ends (normally or by a panic): the KvStore is gone, the    *)
(* file stays                                                             *)
NoStore ==
    /\ st' = "closed"
    /\ map' = EmptyMap
    /\ final_offset' = 0
    /\ size' = 0

(* KvStore::open. File::create on a missing file gives the empty file.    *)
Open ==
    /\ st = "closed"
    /\ LET r == intialize_index(disk)
       IN  IF r.ok
           THEN /\ st' = "ready"
                /\ map' = r.map
                /\ final_offset' = r.final_offset
                /\ size' = r.size
                /\ last' = Call("open", <<>>, <<>>, Ok, FALSE, EmptyMap)
           ELSE /\ NoStore
                /\ last' = Call("open", <<>>, <<>>, Res("ParseError", <<>>),
                                FALSE, EmptyMap)
    /\ UNCHANGED <<disk, kv, nops, ncompact>>

(* KvStore::compact, run on file d1 with counter sz1; the rest of the     *)
(* engine state is given by m1 and fo1                                    *)
CompactThen(op, k, v, d1, m1, fo1, sz1) ==
    LET s == stream(d1)
    IN  IF ~s.ok
        THEN /\ NoStore
             /\ disk' = d1
             /\ last' = Call(op, k, v, Res("Panic", <<>>), TRUE, EmptyMap)
             /\ ncompact' = ncompact
        ELSE LET mp == Collapse(s.cmds)
             IN  \E ord \in Orders(DOMAIN mp) :
                    LET nd == Rewrite(mp, ord, 1)
                    IN  /\ disk' = nd
                        /\ size' = SizeAfterCompact(sz1, Len(ord))
                        /\ map' = IndexAfterCompact(m1, nd)
                        /\ final_offset' = CursorAfterCompact(fo1, nd)
                        /\ st' = "ready"
                        /\ last' = Call(op, k, v, Ok, TRUE, mp)
                        /\ ncompact' = ncompact + 1

(* the tail of set and remove: if self.wal.exceeds() { self.compact()? }  *)
FinishWrite(op, k, v, d1, m1, fo1, sz1) ==
    IF Exceeds(sz1)
    THEN CompactThen(op, k, v, d1, m1, fo1, sz1)
    ELSE /\ disk' = d1
         /\ map' = m1
         /\ final_offset' = fo1
         /\ size' = sz1
         /\ st' = "ready"
         /\ last' = Call(op, k, v, Ok, FALSE, EmptyMap)
         /\ ncompact' = ncompact

(* KvStore::set *)
Set(k, v) ==
    /\ st = "ready"
    /\ nops < MaxOps
    /\ LET data == to_string(SetCmd(k, v))
           num_bytes == Len(data)
       IN  FinishWrite("set", k, v,
                       append(disk, data),
                       Insert(map, k, SetEntry(final_offset, num_bytes)),
                       CursorAfterSet(final_offset, num_bytes),
                       size + 1)
    /\ kv' = RefSet(kv, k, v)
    /\ nops' = nops + 1

(* KvStore::remove *)
Remove(k) ==
    /\ st = "ready"
    /\ nops < MaxOps
    /\ IF RemoveFails(map, k)
       THEN /\ last' = Call("remove", k, <<>>, Res("KeyNotFound", <<>>),
                            FALSE, EmptyMap)
            /\ UNCHANGED <<disk, st, map, final_offset, size, ncompact>>
       ELSE LET data == to_string(RmCmd(k))
                num_bytes == Len(data)
            IN  FinishWrite("remove", k, <<>>,
                            append(disk, data),
                            IndexAfterRemove(map, k),
                            CursorAfterRemove(final_offset, num_bytes),
                            size + 1)
    /\ kv' = RefRemove(kv, k)
    /\ nops' = nops + 1

(* a bug get could have: the read is persisted as a Get record, as when   *)
(* one tagged type serves both commands and log payloads                  *)
GetLogged(k) ==
    /\ st = "ready"
    /\ nops < MaxOps
    /\ LET r == GetOf(disk, map, k)
       IN  /\ last' = Call("get", k, <<>>, r, FALSE, EmptyMap)
           /\ IF r.tag = "Panic"
              THEN NoStore
              ELSE UNCHANGED <<st, map, final_offset, size>>
    /\ disk' = append(disk, to_string(GetCmd(k)))
    /\ UNCHANGED <<kv, ncompact>>
    /\ nops' = nops + 1

(* KvStore::get; a panic in read_one ends the process *)
Get(k) ==
    /\ st = "ready"
    /\ nops < MaxOps
    /\ LET r == GetOf(disk, map, k)
       IN  /\ last' = Call("get", k, <<>>, r, FALSE, EmptyMap)
           /\ IF r.tag = "Panic"
              THEN NoStore
              ELSE UNCHANGED <<st, map, final_offset, size>>
    /\ UNCHANGED <<disk, kv, ncompact>>
    /\ nops' = nops + 1

(* the KvStore is dropped: there is no close step, the file is not held *)
Exit ==
    /\ st = "ready"
    /\ nops < MaxOps
    /\ NoStore
    /\ last' = Call("exit", <<>>, <<>>, Ok, FALSE, EmptyMap)
    /\ UNCHANGED <<disk, kv, ncompact>>
    /\ nops' = nops + 1

Next ==
    \/ Open
    \/ \E k \in Keys, v \in Vals : Set(k, v)
    \/ \E k \in Keys : Remove(k)
    \/ \E k \in Keys : Get(k)
    \/ Exit

Spec == Init /\ [][Next]_vars

(* KvStore::compact called on its own, as a test inside the crate can *)
Compact ==
    /\ st = "ready"
    /\ nops < MaxOps
    /\ CompactThen("compact", <<>>, <<>>, disk, map, final_offset, size)
    /\ kv' = kv
    /\ nops' = nops + 1

NextC == Next \/ Compact

SpecC == Init /\ [][NextC]_vars

-----------------------------------------------------------------------------
(* I/O failures: WAL::append returns Err (the open or the write fails);   *)
(* the file and wal.size stay as they were                                *)

IoError == Res("FileReadError", <<>>)

(* KvStore::set when its append fails: the ? returns the error at once *)
SetAppendFails(k, v) ==
    /\ st = "ready"
    /\ nops < MaxOps
    /\ last' = Call("set_io", k, v, IoError, FALSE, EmptyMap)
    /\ UNCHANGED <<disk, st, map, final_offset, size, kv, ncompact>>
    /\ nops' = nops + 1

(* KvStore::remove when its append fails: let _ = drops the error, the    *)
(* entry is removed and the threshold test follows                        *)
RemoveAppendFails(k) ==
    /\ st = "ready"
    /\ nops < MaxOps
    /\ ~RemoveFails(map, k)
    /\ FinishWrite("remove_io", k, <<>>,
                   disk,
                   IndexAfterRemove(map, k),
                   final_offset,
                   size)
    /\ kv' = kv
    /\ nops' = nops + 1

NextIO ==
    \/ Next
    \/ \E k \in Keys, v \in Vals : SetAppendFails(k, v)
    \/ \E k \in Keys : RemoveAppendFails(k)

SpecIO == Init /\ [][NextIO]_vars

-----------------------------------------------------------------------------
(* Keys of different lengths: {"Rm":"abcdefgh"} is as long as             *)
(* {"Set":["a","1"]}                                                      *)

LongKey == <<"a", "b", "c", "d", "e", "f", "g", "h">>

KeysLong == {<<"a">>, LongKey}

NextLong ==
    \/ Open
    \/ \E k \in KeysLong, v \in Vals : Set(k, v)
    \/ \E k \in KeysLong : Remove(k)
    \/ \E k \in KeysLong : Get(k)
    \/ Exit

SpecLong == Init /\ [][NextLong]_vars

-----------------------------------------------------------------------------
(* Crashes: the process dies inside set or remove; the file keeps what    *)
(* was written, the next run opens it                                     *)

Crash == Res("Crash", <<>>)

(* byte counts at which a write may be cut short *)
Cuts(data) == {1, Len(data) - 1}

Crashed ==
    /\ st' = "crashed"
    /\ map' = EmptyMap
    /\ final_offset' = 0
    /\ size' = 0

(* the record a call appends, and the reference state once it is appended *)
WriteCmd(op, k, v) == IF op = "set" THEN SetCmd(k, v) ELSE RmCmd(k)

(* the call reaches its append: set always, remove when the key is indexed *)
Appends(op, k) == op = "set" \/ ~RemoveFails(map, k)

(* WAL::append cut short by a crash: only n bytes of the record reach the *)
(* file                                                                   *)
TornAppend(op, k, v, n) ==
    /\ st = "ready"
    /\ nops < MaxOps
    /\ Appends(op, k)
    /\ n \in Cuts(to_string(WriteCmd(op, k, v)))
    /\ disk' = append(disk, SubSeq(to_string(WriteCmd(op, k, v)), 1, n))
    /\ Crashed
    /\ last' = Call(IF op = "set" THEN "torn_set" ELSE "torn_remove",
                    k, v, Crash, FALSE, EmptyMap)
    /\ UNCHANGED <<kv, ncompact>>
    /\ nops' = nops + 1

(* a crash after WAL::append has returned and before the index update *)
CrashAfterAppend(op, k, v) ==
    /\ st = "ready"
    /\ nops < MaxOps
    /\ Appends(op, k)
    /\ disk' = append(disk, to_string(WriteCmd(op, k, v)))
    /\ Crashed
    /\ last' = Call(IF op = "set" THEN "crash_set" ELSE "crash_remove",
                    k, v, Crash, FALSE, EmptyMap)
    /\ kv' = RefStep(kv, WriteCmd(op, k, v))
    /\ ncompact' = ncompact
    /\ nops' = nops + 1

(* a crash inside KvStore::compact, run by a set or remove whose append   *)
(* took the counter over the threshold: before clear(), or after clear()  *)
(* and j of the appends of the rewrite                                    *)
CrashInCompact(op, k, v) ==
    /\ st = "ready"
    /\ nops < MaxOps
    /\ Appends(op, k)
    /\ Exceeds(size + 1)
    /\ \E d1 \in {append(disk, to_string(WriteCmd(op, k, v)))} :
       \E s \in {stream(d1)} :
       \E mp \in {Collapse(s.cmds)} :
           /\ s.ok
           /\ \/ disk' = d1
              \/ \E ord \in Orders(DOMAIN mp), j \in 0..Cardinality(DOMAIN mp) :
                    disk' = Rewrite(mp, SubSeq(ord, 1, j), 1)
           /\ last' = Call("crash_compact", k, v, Crash, TRUE, mp)
    /\ Crashed
    /\ kv' = RefStep(kv, WriteCmd(op, k, v))
    /\ ncompact' = ncompact
    /\ nops' = nops + 1

RecoverOp(op) ==
    CASE op = "torn_set"      -> "open_after_torn_set"
      [] op = "torn_remove"   -> "open_after_torn_remove"
      [] op = "crash_set"     -> "open_after_crash_set"
      [] op = "crash_remove"  -> "open_after_crash_remove"
      [] OTHER                -> "open_after_crash_compact"

(* KvStore::open by the run that follows a crash; the call that crashed   *)
(* is kept in last                                                        *)
Recover ==
    /\ st = "crashed"
    /\ LET r == intialize_index(disk)
       IN  IF r.ok
           THEN /\ st' = "ready"
                /\ map' = r.map
                /\ final_offset' = r.final_offset
                /\ size' = r.size
                /\ last' = Call(RecoverOp(last.op), last.key, last.val, Ok,
                                FALSE, last.mapping)
           ELSE /\ NoStore
                /\ last' = Call(RecoverOp(last.op), last.key, last.val,
                                Res("ParseError", <<>>), FALSE, last.mapping)
    /\ UNCHANGED <<disk, kv, nops, ncompact>>

(* the calls that write: <<op, key, value>> *)
WriteCalls ==
    {<<"set", k, v>> : k \in Keys, v \in Vals}
        \cup {<<"remove", k, <<>> >> : k \in Keys}

(* runs of writes, crashes after an append and reopenings; reads are     *)
(* taken by GetOf                                                         *)
NextCrash ==
    \/ Open
    \/ \E k \in Keys, v \in Vals : Set(k, v)
    \/ \E k \in Keys : Remove(k)
    \/ \E c \in WriteCalls : CrashAfterAppend(c[1], c[2], c[3])
    \/ Recover

(* the runs that start on a new, empty log *)
InitFresh == Init /\ disk = <<>>

SpecCrash == InitFresh /\ [][NextCrash]_vars

(* runs of writes, appends cut short and reopenings *)
NextTorn ==
    \/ Open
    \/ \E k \in Keys, v \in Vals : Set(k, v)
    \/ \E k \in Keys : Remove(k)
    \/ \E c \in WriteCalls :
          \E n \in Cuts(to_string(WriteCmd(c[1], c[2], c[3]))) :
              TornAppend(c[1], c[2], c[3], n)
    \/ Recover

SpecTorn == Init /\ [][NextTorn]_vars

(* runs of writes, crashes inside a compaction and reopenings *)
NextCrashCompact ==
    \/ Open
    \/ \E k \in Keys, v \in Vals : Set(k, v)
    \/ \E k \in Keys : Remove(k)
    \/ \E c \in WriteCalls : CrashInCompact(c[1], c[2], c[3])
    \/ Recover

SpecCrashCompact == Init /\ [][NextCrashCompact]_vars

-----------------------------------------------------------------------------
(* Replay: open on a directory whose log.txt holds any whole records      *)

MaxLogLen == 3

(* the records a log can hold *)
WriteCmds ==
    {SetCmd(k, v) : k \in Keys, v \in Vals} \cup {RmCmd(k) : k \in Keys}

Logs == UNION {[1..n -> WriteCmds] : n \in 0..MaxLogLen}

(* the bytes of records lo..hi of cmds, back to back as append leaves them *)
RECURSIVE EncodeRange(_, _, _)
EncodeRange(cmds, lo, hi) ==
    IF lo > hi THEN <<>>
    ELSE IF lo = hi THEN to_string(cmds[lo])
    ELSE LET mid == (lo + hi) \div 2
         IN  EncodeRange(cmds, lo, mid) \o EncodeRange(cmds, mid + 1, hi)

EncodeLog(cmds) == EncodeRange(cmds, 1, Len(cmds))

(* the reference map after the first n records of cmds *)
RECURSIVE RefFold(_, _)
RefFold(cmds, n) ==
    IF n = 0 THEN EmptyMap ELSE RefStep(RefFold(cmds, n - 1), cmds[n])

InitReplay ==
    /\ \E cmds \in Logs : disk = EncodeLog(cmds) /\ kv = RefFold(cmds, Len(cmds))
    /\ st = "closed"
    /\ map = EmptyMap
    /\ final_offset = 0
    /\ size = 0
    /\ last = Call("none", <<>>, <<>>, Ok, FALSE, EmptyMap)
    /\ nops = 0
    /\ ncompact = 0

NextReplay == Open

SpecReplay == InitReplay /\ [][NextReplay]_vars

-----------------------------------------------------------------------------
(* The command line: every call of kvs is a process of its own that opens *)
(* the store in the current directory, performs the one command it was    *)
(* given and ends                                                         *)

(* the directory holds no log yet, or a log of Threshold records          *)
PrefillsCLI == {0, Threshold}

InitCLI ==
    /\ \E n \in PrefillsCLI : disk = PreLog(n) /\ kv = PreKv(n)
    /\ st = "closed"
    /\ map = EmptyMap
    /\ final_offset = 0
    /\ size = 0
    /\ last = Call("none", <<>>, <<>>, Ok, FALSE, EmptyMap)
    /\ nops = 0
    /\ ncompact = 0

(* the store main has just opened has served no command yet *)
JustOpened == last.op = "open" /\ last.res = Ok

(* main: Some(Commands::Set { k, v }) *)
MainSet(k, v) == JustOpened /\ Set(k, v)

(* main: Some(Commands::Get { k }) *)
MainGet(k) == JustOpened /\ Get(k)

(* main: Some(Commands::Rm { k }) *)
MainRm(k) == JustOpened /\ Remove(k)

(* main returns after its one command *)
MainReturn == ~JustOpened /\ Exit

NextCLI ==
    \/ Open
    \/ \E k \in Keys, v \in Vals : MainSet(k, v)
    \/ \E k \in Keys : MainGet(k)
    \/ \E k \in Keys : MainRm(k)
    \/ MainReturn

SpecCLI == InitCLI /\ [][NextCLI]_vars

-----------------------------------------------------------------------------
TypeOK ==
    /\ st \in {"closed", "ready", "crashed"}
    /\ DOMAIN map \subseteq Keys
    /\ DOMAIN kv \subseteq Keys
    /\ nops \in 0..MaxOps
    /\ ncompact \in 0..MaxOps

-----------------------------------------------------------------------------
(* Views of the log used by the properties *)

Records(b) == stream(b).cmds

WellFormed(b) == stream(b).ok

(* the last record of key k in log order is a Set *)
LastRecordIsSet(b, k) ==
    LET cmds == Records(b)
        idx  == {i \in 1..Len(cmds) : cmds[i].key = k}
    IN  /\ idx # {}
        /\ cmds[CHOOSE i \in idx : \A j \in idx : j <= i].type = "Set"

(* the multiset of the records of the log *)
RecordBag(b) ==
    LET cmds == Records(b)
    IN  [c \in {cmds[i] : i \in 1..Len(cmds)} |->
            Cardinality({i \in 1..Len(cmds) : cmds[i] = c})]

(* the log holds exactly one Set(k, M[k]) per key of M and nothing else *)
MinimalLogOf(b, M) ==
    LET cmds == Records(b)
    IN  /\ WellFormed(b)
        /\ Len(cmds) = Cardinality(DOMAIN M)
        /\ \A k \in DOMAIN M : \E i \in 1..Len(cmds) : cmds[i] = SetCmd(k, M[k])

IsWrite(c) == c.op \in {"set", "remove"} /\ c.res = Ok

-----------------------------------------------------------------------------
(* C1: every get(k) returns the value of the most recent set(k, v) not    *)
(* followed by a remove(k), and "not found" otherwise: the results of the *)
(* Engine equal those of a plain key -> value map driven by the same      *)
(* calls.                                                                 *)
C1_GetEqualsMap ==
    (last.op = "get") => (last.res = Lookup(kv, last.key))

(* C2: an Engine opened on the directory answers get(k), for every key,   *)
(* with what the key -> value state of the calls made before it holds.    *)
C2_ReopenRoundTrip ==
    (last.op = "open") =>
        /\ last.res = Ok
        /\ st = "ready"
        /\ \A k \in Keys : GetOf(disk, map, k) = Lookup(kv, k)

(* an Engine reopened after writes and a compaction, with a removed key *)
C2_Witness ==
    /\ last.op = "open"
    /\ last.res = Ok
    /\ nops >= 3
    /\ ncompact >= 1
    /\ \E k \in Keys : k \notin DOMAIN kv
    /\ \E k \in Keys : k \in DOMAIN kv

(* C3: remove(k) of a key that was never set, or whose latest write was a *)
(* remove, fails with KeyNotFound and leaves the log, the Index, the      *)
(* cursor and the write counter as they were; no compaction runs.         *)
C3_RemoveAbsent ==
    [][ (last'.op = "remove" /\ nops' = nops + 1 /\ last'.key \notin DOMAIN kv)
          => /\ last'.res = Res("KeyNotFound", <<>>)
             /\ ~last'.compacted
             /\ disk' = disk
             /\ map' = map
             /\ final_offset' = final_offset
             /\ size' = size
             /\ ncompact' = ncompact ]_vars

(* a remove of a key that was set and then removed has failed *)
C3_Witness ==
    /\ last.op = "remove"
    /\ last.res = Res("KeyNotFound", <<>>)
    /\ LET cmds == Records(disk)
       IN  \E i \in 1..Len(cmds) : cmds[i] = RmCmd(last.key)

(* C4: between Engine operations, a key is in the Index if and only if    *)
(* the last record of that key in the log is a Set record.                *)
C4_IndexLogAgreement ==
    (st = "ready") =>
        \A k \in Keys : (k \in DOMAIN map) <=> LastRecordIsSet(disk, k)

(* a successful remove has left its key out of the Index, after a Set of  *)
(* the same key                                                           *)
C4_Witness ==
    /\ st = "ready"
    /\ last.op = "remove"
    /\ last.res = Ok
    /\ ~last.compacted
    /\ last.key \notin DOMAIN map
    /\ \E v \in Vals, i \in 1..Len(Records(disk)) :
          Records(disk)[i] = SetCmd(last.key, v)

(* C5: between Engine operations, for every key k of the Index with entry *)
(* (start, end), the log bytes [start, end) are exactly one whole record, *)
(* the record Set(k, v) with v the current value of k.                    *)
C5_IndexEntries ==
    (st = "ready") =>
        \A k \in DOMAIN map :
            /\ k \in DOMAIN kv
            /\ read_one(disk, map[k]) = [tag |-> "ok", cmd |-> SetCmd(k, kv[k])]

(* C6: after open and after every completed set, remove and compaction,   *)
(* final_offset equals the byte length of the log file.                   *)
C6_CursorIsLength ==
    (st = "ready") => (final_offset = Len(disk))

(* C7: if the log replays to the mapping M before a compaction, then      *)
(* after it the log holds exactly one Set(k, M[k]) per key of M and no    *)
(* other record, and get(k), on the same Engine and on a reopened one,    *)
(* returns M[k] for k in M and "not found" otherwise.                     *)
C7_CompactionResult ==
    (last.compacted /\ last.res = Ok) =>
        /\ last.mapping = kv
        /\ MinimalLogOf(disk, last.mapping)
        /\ \A k \in Keys : GetOf(disk, map, k) = Lookup(last.mapping, k)
        /\ \A k \in Keys :
              GetOf(disk, intialize_index(disk).map, k) = Lookup(last.mapping, k)

(* C8: right after a compaction the write counter equals the number of    *)
(* records the compaction wrote, the number of surviving keys.            *)
C8_CounterReset ==
    (last.compacted /\ last.res = Ok) =>
        (size = Cardinality(DOMAIN last.mapping))

(* C9: a successful set or remove runs compaction before it returns       *)
(* exactly when the write counter after its append is greater than the    *)
(* threshold; an Engine that has not compacted has a counter of at most   *)
(* the threshold.                                                         *)
C9_ThresholdTrigger ==
    /\ [][ (nops' = nops + 1 /\ IsWrite(last'))
             => /\ last'.compacted <=> (size + 1 > Threshold)
                /\ last'.compacted <=> (ncompact' = ncompact + 1)
                /\ ~last'.compacted => (size' = size + 1) ]_vars
    /\ []((st = "ready" /\ ncompact = 0) => size <= Threshold)

(* the write that takes the counter from the threshold to one more has    *)
(* compacted, and it is the first to do so                                *)
C9_Witness ==
    /\ IsWrite(last)
    /\ last.compacted
    /\ ncompact = 1
    /\ nops >= 2

(* C10: a second compaction right after a first one leaves the same       *)
(* key -> value state, the same multiset of log records, the same Index   *)
(* and the same write counter as the first.                               *)
C10_CompactTwice ==
    [][ (/\ last.op = "compact" /\ last.res = Ok
         /\ last'.op = "compact" /\ last'.res = Ok
         /\ nops' = nops + 1)
          => /\ Collapse(Records(disk')) = Collapse(Records(disk))
             /\ RecordBag(disk') = RecordBag(disk)
             /\ map' = map
             /\ size' = size ]_vars


(* C11: when the append of set(k, v) or remove(k) fails with an I/O       *)
(* error, the call returns an error and the Index, the cursor and the     *)
(* write counter are as before; the Index never reflects a record that is *)
(* not in the log.                                                        *)
C11_FailedAppend ==
    [][ (last'.op \in {"set_io", "remove_io"} /\ nops' = nops + 1)
          => /\ last'.res = IoError
             /\ map' = map
             /\ final_offset' = final_offset
             /\ size' = size ]_vars

(* C12: get(k) of a key of the Index whose byte range decodes to a record *)
(* that is not a Set returns an internal error, never "not found".        *)
C12_GetNonSet ==
    (/\ last.op = "get"
     /\ st = "ready"
     /\ last.key \in DOMAIN map
     /\ read_one(disk, map[last.key]).tag = "ok"
     /\ read_one(disk, map[last.key]).cmd.type # "Set")
        => last.res.tag \notin {"None", "Some"}

(* C13: on a log of n whole records followed by an undecodable partial    *)
(* record, every replay stops at the fragment and succeeds with the state *)
(* of the n whole records; it returns no ParseError and does not abort.   *)
C13_TruncatedTail ==
    (last.op \in {"open_after_torn_set", "open_after_torn_remove"}) =>
        /\ last.res = Ok
        /\ st = "ready"
        /\ \A k \in Keys : GetOf(disk, map, k) = Lookup(kv, k)

(* C14: after a crash at any point of a compaction, the next open yields, *)
(* for every key, the key -> value state the log had when the compaction  *)
(* started.                                                               *)
C14_CrashSafeCompaction ==
    (last.op = "open_after_crash_compact") =>
        /\ last.res = Ok
        /\ st = "ready"
        /\ \A k \in Keys : GetOf(disk, map, k) = Lookup(last.mapping, k)

(* C18: after a crash that follows the completed append of set(k, v) or   *)
(* remove(k) and precedes the index update, the next open shows the       *)
(* write: get(k) is v after the set and "not found" after the remove.     *)
C18_CrashAfterAppend ==
    /\ (last.op = "open_after_crash_set") =>
          /\ last.res = Ok
          /\ st = "ready"
          /\ GetOf(disk, map, last.key) = Res("Some", last.val)
    /\ (last.op = "open_after_crash_remove") =>
          /\ last.res = Ok
          /\ st = "ready"
          /\ GetOf(disk, map, last.key) = Res("None", <<>>)

(* an open after a crashed set that overwrote another value of its key *)
C18_Witness ==
    /\ last.op = "open_after_crash_set"
    /\ last.res = Ok
    /\ \E v \in Vals \ {last.val}, i \in 1..Len(Records(disk)) :
          Records(disk)[i] = SetCmd(last.key, v)

(* byte offset where record i of cmds starts when the records are written *)
(* back to back from offset 0; record i ends where record i + 1 starts    *)
RECURSIVE RecordStart(_, _)
RecordStart(cmds, i) ==
    IF i <= 1 THEN 0
    ELSE RecordStart(cmds, i - 1) + Len(to_string(cmds[i - 1]))

(* the position of the last record of key k *)
LastRecordOf(cmds, k) ==
    CHOOSE i \in 1..Len(cmds) :
        /\ cmds[i].key = k
        /\ \A j \in (i + 1)..Len(cmds) : cmds[j].key # k

(* C15: opening an Engine on a log holding whole records r1..rn succeeds  *)
(* with an Index that maps exactly each key whose last record is a Set to *)
(* (offset where that Set record starts, offset where it ends), a cursor  *)
(* equal to the end offset of rn (0 for an empty log) and a write counter *)
(* equal to n; a Remove(k) met while k is absent from the Index is        *)
(* skipped without error.                                                 *)
C15_ReplayResult ==
    (last.op = "open" /\ EncodeLog(Records(disk)) = disk) =>
        LET cmds == Records(disk)
            n    == Len(cmds)
        IN  /\ last.res = Ok
            /\ st = "ready"
            /\ DOMAIN map = {k \in Keys : LastRecordIsSet(disk, k)}
            /\ \A k \in DOMAIN map :
                  map[k] = <<RecordStart(cmds, LastRecordOf(cmds, k)),
                             RecordStart(cmds, LastRecordOf(cmds, k) + 1)>>
            /\ final_offset = RecordStart(cmds, n + 1)
            /\ final_offset = Len(disk)
            /\ size = n

(* an open of a log that starts with the Remove of an absent key and then *)
(* sets one key twice                                                     *)
C15_Witness ==
    /\ last.op = "open"
    /\ last.res = Ok
    /\ LET cmds == Records(disk)
       IN  /\ Len(cmds) = 3
           /\ cmds[1].type = "Rm"
           /\ cmds[2].type = "Set"
           /\ cmds[3].type = "Set"
           /\ cmds[2].key = cmds[3].key
           /\ cmds[3].key \in DOMAIN map

(* C16: a successful set(k, v) or remove(k) that does not trigger         *)
(* compaction leaves the previous log contents as a prefix of the new log *)
(* and extends it by exactly one record, Set(k, v) or Remove(k); no       *)
(* existing byte of the log changes.                                      *)
C16_AppendOnly ==
    [][ (IsWrite(last') /\ nops' = nops + 1 /\ ~last'.compacted)
            => /\ SubSeq(disk', 1, Len(disk)) = disk
               /\ SubSeq(disk', Len(disk) + 1, Len(disk'))
                     = to_string(WriteCmd(last'.op, last'.key, last'.val))
      ]_vars

(* a remove that succeeded without compaction on a log that already held *)
(* records                                                               *)
C16_Witness ==
    /\ IsWrite(last)
    /\ ~last.compacted
    /\ last.op = "remove"
    /\ Len(Records(disk)) >= 3

(* C17: get(k) leaves the log contents, the Index, the cursor and the     *)
(* write counter unchanged and never appends a record; when k is absent   *)
(* from the Index it returns "not found" without reading the log. When    *)
(* the read panics the process ends and no Engine is left; the log is     *)
(* unchanged then too.                                                    *)
C17_GetReadOnly ==
    [][ (last'.op = "get" /\ nops' = nops + 1)
            => /\ disk' = disk
               /\ (last'.res.tag # "Panic" =>
                     /\ st' = st
                     /\ map' = map
                     /\ final_offset' = final_offset
                     /\ size' = size)
               /\ (last'.key \notin DOMAIN map =>
                     last'.res = Res("None", <<>>))
      ]_vars

(* a get of an indexed key and a get of an absent key, on a log that      *)
(* holds records                                                          *)
C17_Witness ==
    /\ last.op = "get"
    /\ st = "ready"
    /\ last.key \notin DOMAIN map
    /\ DOMAIN map # {}
    /\ last.res = Res("None", <<>>)

(* C19: when every operation is run as its own invocation that opens a    *)
(* fresh Engine, performs exactly one set, get or remove and exits, each  *)
(* get(k) returns the value of the most recent set(k, v) not followed by  *)
(* a successful remove(k), else "not found", and each remove of an absent *)
(* key fails with KeyNotFound (a remove of a present key succeeds),       *)
(* including across compactions.                                          *)
C19_CommandLine ==
    [][ /\ (last'.op = "get" /\ nops' = nops + 1)
            => last'.res = Lookup(kv, last'.key)
        /\ (last'.op = "remove" /\ nops' = nops + 1)
            => last'.res = IF last'.key \in DOMAIN kv
                           THEN Ok ELSE Res("KeyNotFound", <<>>)
      ]_vars

(* a get that finds a value in an invocation that follows one whose set   *)
(* compacted the log                                                      *)
C19_Witness ==
    /\ last.op = "get"
    /\ ncompact >= 1
    /\ nops >= 3
    /\ last.res.tag = "Some"
    /\ last.res = Lookup(kv, last.key)

=============================================================================
